---- MODULE Spec2Model ----
(***************************************************************************)
(* Dual-Baseline Telemetry core of skylessdev/dbt: the residual and        *)
(* divergence engine (server/lib/fraud.ts), the state embedding table      *)
(* (server/lib/glyphs.ts), the integrity tracker (lib/integrity.ts, kept   *)
(* in attached_assets/dbt_integrity_lib_1756411225165.ts), the proof       *)
(* ledger (server/lib/proof.ts) and the two routes that drive them         *)
(* (server/routes.ts, POST /api/detect, POST /api/transition,              *)
(* GET /api/proofchain).                                                   *)
(*                                                                         *)
(* JavaScript numbers are modelled in fixed point: the integer n stands    *)
(* for n / SCALE.  Two further values of the type are kept apart from the  *)
(* integers: NaN and undefined, which propagate as in IEEE-754 / ECMAScript*)
(* (every arithmetic operation on them yields NaN, every comparison with   *)
(* them is false).  Counts (interactionCount, idx, length) are plain       *)
(* integers.                                                               *)
(***************************************************************************)
EXTENDS Integers, Sequences, FiniteSets, TLC

VARIABLES
    SKYLA_CHAIN,      \* globalThis.SKYLA_CHAIN: the proof ledger
    SKYLA_INTEGRITY,  \* globalThis.SKYLA_INTEGRITY: Map key -> IntegrityRow
    res,              \* the last response / return value handed to a caller
    pending,          \* requests in flight, one slot per client
    hist,             \* history: per key, the divergences passed to update
    ops               \* number of operations served so far: the logical clock

vars == <<SKYLA_CHAIN, SKYLA_INTEGRITY, res, pending, hist, ops>>

----------------------------------------------------------------------------
(* Numbers *)

SCALE == 10 * 10 * 10 * 10

NaN == -2000000000

Undefined == -2000000001

IsNum(x) == x # NaN /\ x # Undefined

\* the decimal literal i.f (f in ten-thousandths)
Num(i) == i * SCALE

Add(a, b) == IF IsNum(a) /\ IsNum(b) THEN a + b ELSE NaN

Sub(a, b) == IF IsNum(a) /\ IsNum(b) THEN a - b ELSE NaN

Mul(a, b) == IF IsNum(a) /\ IsNum(b) THEN (a * b) \div SCALE ELSE NaN

Div(a, b) == IF IsNum(a) /\ IsNum(b) /\ b # 0 THEN (a * SCALE) \div b ELSE NaN

Gt(a, b) == IsNum(a) /\ IsNum(b) /\ a > b

Ge(a, b) == IsNum(a) /\ IsNum(b) /\ a >= b

Lt(a, b) == IsNum(a) /\ IsNum(b) /\ a < b

MathMin(a, b) == IF IsNum(a) /\ IsNum(b) THEN (IF a < b THEN a ELSE b) ELSE NaN

MathMax(a, b) == IF IsNum(a) /\ IsNum(b) THEN (IF a > b THEN a ELSE b) ELSE NaN

RECURSIVE ISqrtIter(_, _, _)
ISqrtIter(n, lo, hi) ==
    IF hi - lo <= 1 THEN lo
    ELSE LET mid == (lo + hi) \div 2
         IN  IF mid * mid <= n THEN ISqrtIter(n, mid, hi)
                               ELSE ISqrtIter(n, lo, mid)

MathSqrt(x) == IF IsNum(x) /\ x >= 0 THEN ISqrtIter(x * SCALE, 0, 46341) ELSE NaN

\* x || 0
OrZero(x) == IF IsNum(x) /\ x # 0 THEN x ELSE 0

\* `${x}`
Str(x) == IF x = NaN THEN "NaN" ELSE IF x = Undefined THEN "undefined" ELSE ToString(x)

----------------------------------------------------------------------------
(* server/lib/glyphs.ts *)

DOMAIN_ == "symbolic.state"

EMBEDDINGS ==
    [ chaos    |-> <<1000, 9000, 8000, 2000>>,
      conflict |-> <<3000, 7000, 6000, 4000>>,
      reflect  |-> <<5000, 5000, 4000, 6000>>,
      aligned  |-> <<7000, 3000, 3000, 7000>>,
      presence |-> <<8000, 2000, 2000, 8000>>,
      insight  |-> <<9000, 1000, 1000, 9000>>,
      peace    |-> <<9000, 0, 0, 10000>>,
      serenity |-> <<10000, 0, 0, 10000>> ]

\* Object.keys(EMBEDDINGS)
ObjectKeys == <<"chaos", "conflict", "reflect", "aligned", "presence",
                "insight", "peace", "serenity">>

StateNames == DOMAIN EMBEDDINGS

\* EMBEDDINGS is an object literal: a property read that misses the own
\* properties continues in Object.prototype.  The inherited members are
\* functions (with a length and no indexed elements) or, for __proto__,
\* the prototype object itself (no length).
ObjectPrototype ==
    [ constructor    |-> 1,
      hasOwnProperty |-> 1,
      toString       |-> 0,
      valueOf        |-> 0,
      __proto__      |-> Undefined ]

\* EMBEDDINGS[name]
Lookup(name) ==
    IF name \in StateNames
    THEN [truthy |-> TRUE, length |-> Len(EMBEDDINGS[name]), at |-> EMBEDDINGS[name]]
    ELSE IF name \in DOMAIN ObjectPrototype
    THEN [truthy |-> TRUE, length |-> ObjectPrototype[name], at |-> <<>>]
    ELSE [truthy |-> FALSE, length |-> Undefined, at |-> <<>>]

\* a[i], zero-based
At(a, i) == IF i + 1 <= Len(a.at) THEN a.at[i + 1] ELSE Undefined

----------------------------------------------------------------------------
(* server/lib/fraud.ts *)

RECURSIVE SumSq(_, _, _, _, _)
SumSq(a, b, i, n, s) ==
    IF Lt(i, n)
    THEN LET d == Sub(At(a, i), At(b, i))
         IN  SumSq(a, b, i + 1, n, Add(s, Mul(d, d)))
    ELSE s

\* a distance taken over the sums of the components
VectorSumDistance(a, b) ==
    LET n == MathMin(a.length, b.length)
        z == [truthy |-> TRUE, length |-> b.length,
              at |-> [i \in 1..Len(b.at) |-> 0 - b.at[i]]]
    IN  MathSqrt(SumSq(a, z, 0, n, 0))

vectorDistance(a, b) ==
    LET n == MathMin(a.length, b.length)
    IN  MathSqrt(SumSq(a, b, 0, n, 0))

FORBIDDEN == << <<"chaos", "peace">>, <<"conflict", "serenity">> >>

forbiddenTransition(from, to) ==
    \E i \in 1..Len(FORBIDDEN) : FORBIDDEN[i][1] = from /\ FORBIDDEN[i][2] = to

CAP == 5

\* a residual that is the raw distance, neither scaled nor bounded
TemporalUncapped(dist) == dist

\* a residual that is the distance itself, not divided by the cap
TemporalByUnitCap(dist) == MathMin(Num(1), dist)

temporalResidualFromDistance(dist) == MathMin(Num(1), Div(dist, Num(CAP)))

logicResidualFromRule(forbidden) == IF forbidden THEN Num(1) ELSE 0

WL == 6000

WT == 4000

RECURSIVE ContextSum(_, _)
ContextSum(context, s) ==
    IF context = <<>> THEN s
    ELSE ContextSum(Tail(context), Add(s, Mul(Mul(Head(context), Head(context)), 2500)))

\* the gap between the two weighted baselines in place of their sum
DivergenceGap(deltaLogic, deltaTemporal, context) ==
    LET l == Mul(WL, Mul(deltaLogic, deltaLogic))
        t == Mul(WT, Mul(deltaTemporal, deltaTemporal))
    IN  MathSqrt(IF Gt(t, l) THEN Sub(t, l) ELSE Sub(l, t))

\* context: the values of the context record, in key order
divergence(deltaLogic, deltaTemporal, context) ==
    LET s == Add(Mul(WL, Mul(deltaLogic, deltaLogic)),
                 Mul(WT, Mul(deltaTemporal, deltaTemporal)))
    IN  MathSqrt(ContextSum(context, s))

\* routes.ts imports divergence as calcDiv and calls it without context
calcDiv(deltaLogic, deltaTemporal) == divergence(deltaLogic, deltaTemporal, <<>>)

\* the cascade with inclusive thresholds
VerdictInclusive(deltaLogic, deltaTemporal, div) ==
    IF Ge(deltaLogic, Num(1)) THEN "REJECT"
    ELSE IF Ge(div, 8500) THEN "REJECT"
    ELSE IF Ge(div, 6500) THEN "SUSPICIOUS"
    ELSE IF Ge(div, 4500) THEN "CAUTION"
    ELSE "VALID"

\* the cascade without the hard logic failure
VerdictByDivergenceOnly(deltaLogic, deltaTemporal, div) ==
    IF Gt(div, 8500) THEN "REJECT"
    ELSE IF Gt(div, 6500) THEN "SUSPICIOUS"
    ELSE IF Gt(div, 4500) THEN "CAUTION"
    ELSE "VALID"

verdictFromDivergence(deltaLogic, deltaTemporal, div) ==
    IF Ge(deltaLogic, Num(1)) THEN "REJECT"
    ELSE IF Gt(div, 8500) THEN "REJECT"
    ELSE IF Gt(div, 6500) THEN "SUSPICIOUS"
    ELSE IF Gt(div, 4500) THEN "CAUTION"
    ELSE "VALID"

----------------------------------------------------------------------------
(* lib/integrity.ts (attached_assets/dbt_integrity_lib_1756411225165.ts) *)

ALPHA == 2000

COLD_START_THRESHOLD == 5

key(actorId, domain) == actorId \o "::" \o domain

\* a set that starts a new map holding the one entry
MapOfOne(m, k, row) == [x \in {k} |-> row]

\* Map.prototype.set
MapSet(m, k, row) == [x \in (DOMAIN m) \cup {k} |-> IF x = k THEN row ELSE m[x]]

\* Map.prototype.delete
MapDelete(m, k) == [x \in (DOMAIN m) \ {k} |-> m[x]]

\* a read that falls back to the floor instead of the optimistic prior
PessimisticPrior(m, actorId, domain) ==
    LET k == actorId \o "::" \o domain
    IN  IF k \in DOMAIN m THEN m[k].integrity ELSE 500

\* row?.integrity ?? 0.85
getIntegrity(m, actorId, domain) ==
    LET k == key(actorId, domain)
    IN  IF k \in DOMAIN m THEN m[k].integrity ELSE 8500

\* the row, or null (here: a row-shaped value with isNull set)
getIntegrityDetails(m, actorId, domain) ==
    LET k == key(actorId, domain)
    IN  IF k \in DOMAIN m
        THEN [isNull |-> FALSE, row |-> m[k]]
        ELSE [isNull |-> TRUE, row |-> [interactionCount |-> 0]]

\* a penalty applied at full weight from the first interaction
NoColdStart(penalty, prevCount) == penalty

\* penalty * (0.3 + 0.7 * coldStartFactor)
adjustedPenaltyOf(penalty, prevCount) ==
    LET coldStartFactor ==
            MathMin(Num(1), Div(Num(prevCount), Num(COLD_START_THRESHOLD)))
    IN  Mul(penalty, Add(3000, Mul(7000, coldStartFactor)))

\* a clamp that bounds the integrity from above only
ClampAbove(newI) == MathMin(Num(1), newI)

\* a floor of 0.5 in place of 0.05
ClampAtHalf(newI) == MathMax(5000, MathMin(Num(1), newI))

\* Math.max(0.05, Math.min(1, newI))
clampIntegrity(newI) == MathMax(500, MathMin(Num(1), newI))

\* a count that is not advanced
SameCount(prevCount) == prevCount

\* prev?.interactionCount ?? 0, plus one
nextCount(prevCount) == prevCount + 1

\* the row that updateIntegrity builds from the previous row (or defaults)
updatedRow(m, actorId, domain, div, t) ==
    LET k          == key(actorId, domain)
        has        == k \in DOMAIN m
        prevI      == IF has THEN m[k].integrity ELSE 8500
        prevCount  == IF has THEN m[k].interactionCount ELSE 0
        prevAvgDiv == IF has THEN m[k].averageDivergence ELSE 3000
        penalty    == MathMin(Num(1), div)
        adjustedPenalty == adjustedPenaltyOf(penalty, prevCount)
        newI       == Add(Mul(Sub(Num(1), ALPHA), prevI),
                          Mul(ALPHA, Sub(Num(1), adjustedPenalty)))
        newAvgDiv  == Add(Mul(Sub(Num(1), ALPHA), prevAvgDiv), Mul(ALPHA, div))
    IN  [ actorId           |-> actorId,
          domain            |-> domain,
          integrity         |-> clampIntegrity(newI),
          lastUpdated       |-> t,
          interactionCount  |-> nextCount(prevCount),
          averageDivergence |-> newAvgDiv ]

\* the table after updateIntegrity(actorId, domain, div); the call returns
\* the integrity of the row it stored
updateIntegrity(m, actorId, domain, div, t) ==
    MapSet(m, key(actorId, domain), updatedRow(m, actorId, domain, div, t))

\* a trend that is computed from the first interaction on
TrendFromFirst(m, actorId, domain) ==
    LET details == getIntegrityDetails(m, actorId, domain)
    IN  IF details.isNull THEN 0
        ELSE LET expectedIntegrity == Sub(Num(1), details.row.averageDivergence)
             IN  Sub(details.row.integrity, expectedIntegrity)

getIntegrityTrend(m, actorId, domain) ==
    LET details == getIntegrityDetails(m, actorId, domain)
    IN  IF details.isNull \/ details.row.interactionCount < 3 THEN 0
        ELSE LET expectedIntegrity == Sub(Num(1), details.row.averageDivergence)
             IN  Sub(details.row.integrity, expectedIntegrity)

\* a reset that empties the record and keeps it in the table
ResetInPlace(m, actorId, domain) ==
    LET k == key(actorId, domain)
    IN  IF k \in DOMAIN m
        THEN [m EXCEPT ![k].integrity = 8500, ![k].averageDivergence = 3000,
                       ![k].interactionCount = 0]
        ELSE m

\* a reset that puts the defaults back into the record and keeps it
SoftReset(m, actorId, domain) ==
    LET k == key(actorId, domain)
    IN  IF k \in DOMAIN m
        THEN [m EXCEPT ![k].integrity = 8500, ![k].averageDivergence = 3000]
        ELSE m

resetIntegrity(m, actorId, domain) == MapDelete(m, key(actorId, domain))

RECURSIVE SumCounts(_, _)
SumCounts(m, ks) ==
    IF ks = {} THEN 0
    ELSE LET k == CHOOSE x \in ks : TRUE
         IN  m[k].interactionCount + SumCounts(m, ks \ {k})

RECURSIVE SumWeighted(_, _, _)
SumWeighted(m, ks, totalWeight) ==
    IF ks = {} THEN 0
    ELSE LET k == CHOOSE x \in ks : TRUE
         IN  Add(SumWeighted(m, ks \ {k}, totalWeight),
                 Mul(m[k].integrity,
                     Div(Num(m[k].interactionCount), Num(totalWeight))))

\* the Map's iteration order is not kept: domains is returned as a set
getActorSummary(m, actorId) ==
    LET records == {k \in DOMAIN m : m[k].actorId = actorId}
    IN  IF records = {}
        THEN [domains |-> {}, averageIntegrity |-> 8500, totalInteractions |-> 0]
        ELSE LET totalWeight == SumCounts(m, records)
             IN  [ domains           |-> {m[k].domain : k \in records},
                   averageIntegrity  |-> SumWeighted(m, records, totalWeight),
                   totalInteractions |-> SumCounts(m, records) ]

----------------------------------------------------------------------------
(* server/lib/proof.ts *)

\* the digest is taken to be collision-free: it is the identity on the
\* formatted string
sha256(data) == "sha256(" \o data \o ")"

\* a digest that formats the optional fields as they are
HashRawFields(node) ==
    sha256(ToString(node.idx) \o "-" \o node.from \o "-" \o node.to \o "-"
           \o Str(node.delta) \o "-" \o node.prevHash \o "-"
           \o Str(node.deltaLogic) \o "-"
           \o Str(node.deltaTemporal) \o "-"
           \o Str(node.divergence))

\* a digest of the transition alone, without idx and prevHash
HashWithoutPosition(node) ==
    sha256(node.from \o "-" \o node.to \o "-" \o Str(node.delta) \o "-"
           \o Str(OrZero(node.deltaLogic)) \o "-"
           \o Str(OrZero(node.deltaTemporal)) \o "-"
           \o Str(OrZero(node.divergence)))

hashProofNode(node) ==
    sha256(ToString(node.idx) \o "-" \o node.from \o "-" \o node.to \o "-"
           \o Str(node.delta) \o "-" \o node.prevHash \o "-"
           \o Str(OrZero(node.deltaLogic)) \o "-"
           \o Str(OrZero(node.deltaTemporal)) \o "-"
           \o Str(OrZero(node.divergence)))

\* one-based numbering
LengthPlusOne(chain) == Len(chain) + 1

\* const idx = chain.length
nextIdx(chain) == Len(chain)

\* the node appendProof seals for this chain and transition
SealedNode(chain, transition) ==
    LET n == [ idx           |-> nextIdx(chain),
               from          |-> transition.from,
               to            |-> transition.to,
               delta         |-> transition.delta,
               prevHash      |-> transition.prevHash,
               deltaLogic    |-> transition.deltaLogic,
               deltaTemporal |-> transition.deltaTemporal,
               divergence    |-> transition.divergence ]
    IN  [f \in (DOMAIN n) \cup {"hash"} |->
           IF f = "hash" THEN hashProofNode(n) ELSE n[f]]

\* an append that seals the node before the DBT metrics are attached
AppendLegacyHash(chain, transition) ==
    LET node == SealedNode(chain, transition)
        bare == [f \in (DOMAIN node) \ {"hash"} |->
                   IF f \in {"deltaLogic", "deltaTemporal", "divergence"}
                   THEN Undefined ELSE node[f]]
    IN  Append(chain, [node EXCEPT !.hash = hashProofNode(bare)])

\* a ledger that keeps a window of the two latest nodes
AppendWindowed(chain, transition) ==
    IF Len(chain) < 2 THEN Append(chain, SealedNode(chain, transition))
    ELSE Append(Tail(chain), SealedNode(chain, transition))

appendProof(chain, transition) ==
    LET nodeWithoutHash ==
            [ idx           |-> nextIdx(chain),
              from          |-> transition.from,
              to            |-> transition.to,
              delta         |-> transition.delta,
              prevHash      |-> transition.prevHash,
              deltaLogic    |-> transition.deltaLogic,
              deltaTemporal |-> transition.deltaTemporal,
              divergence    |-> transition.divergence ]
        hash == hashProofNode(nodeWithoutHash)
        newNode ==
            [ idx           |-> nodeWithoutHash.idx,
              from          |-> nodeWithoutHash.from,
              to            |-> nodeWithoutHash.to,
              delta         |-> nodeWithoutHash.delta,
              prevHash      |-> nodeWithoutHash.prevHash,
              deltaLogic    |-> nodeWithoutHash.deltaLogic,
              deltaTemporal |-> nodeWithoutHash.deltaTemporal,
              divergence    |-> nodeWithoutHash.divergence,
              hash          |-> hash ]
    IN  Append(chain, newNode)

\* [...(globalThis.SKYLA_CHAIN || [])]
getProofChain(chain) == [i \in 1..Len(chain) |-> chain[i]]

\* a reset that leaves a placeholder genesis node
ResetToGenesisNode ==
    << [ idx |-> 0, from |-> "GENESIS", to |-> "GENESIS", delta |-> 0,
         prevHash |-> "GENESIS", deltaLogic |-> 0, deltaTemporal |-> 0,
         divergence |-> 0, hash |-> "GENESIS" ] >>

\* globalThis.SKYLA_CHAIN = []
resetProofChain == <<>>

\* an append that pushes the node onto the caller's array
PushInPlace(chain, transition) ==
    [ chain    |-> appendProof(chain, transition),
      returned |-> appendProof(chain, transition) ]

\* a call of appendProof on the array chain: the caller's array after the
\* call (the spread copies it, nothing is written to it) and the array
\* handed back
appendProofCall(chain, transition) ==
    [ chain    |-> chain,
      returned |-> appendProof(chain, transition) ]

----------------------------------------------------------------------------
(* server/routes.ts: the DBT endpoints *)

\* const { from, to, actorA = 'user:A', actorB = 'user:B', domain = DOMAIN }
\* = req.body; a missing from/to is undefined and is looked up as such
BodyField(body, f, dflt) == IF f \in DOMAIN body THEN body[f] ELSE dflt

Destructure(body) ==
    [ from   |-> BodyField(body, "from", "undefined"),
      to     |-> BodyField(body, "to", "undefined"),
      actorA |-> BodyField(body, "actorA", "user:A"),
      actorB |-> BodyField(body, "actorB", "user:B"),
      domain |-> BodyField(body, "domain", DOMAIN_) ]

\* if (!EMBEDDINGS[from] || !EMBEDDINGS[to]) return res.status(400)...
InvalidStates(from, to) == ~Lookup(from).truthy \/ ~Lookup(to).truthy

ValidationError(op) ==
    [ op        |-> op,
      status    |-> 400,
      error     |-> "Invalid symbolic states",
      available |-> ObjectKeys ]

\* an engine that measures the step from the state the ledger last recorded
EngineFromTail(from, to) ==
    LET last          == IF SKYLA_CHAIN = <<>> THEN from
                         ELSE SKYLA_CHAIN[Len(SKYLA_CHAIN)].to
        dist          == vectorDistance(Lookup(last), Lookup(to))
        isForbidden   == forbiddenTransition(last, to)
        deltaLogic    == logicResidualFromRule(isForbidden)
        deltaTemporal == temporalResidualFromDistance(dist)
        div           == calcDiv(deltaLogic, deltaTemporal)
    IN  [ dist          |-> dist,
          isForbidden   |-> isForbidden,
          deltaLogic    |-> deltaLogic,
          deltaTemporal |-> deltaTemporal,
          div           |-> div,
          verdict       |-> verdictFromDivergence(deltaLogic, deltaTemporal, div) ]

\* "Calculate all DBT metrics"
Engine(from, to) ==
    LET dist          == vectorDistance(Lookup(from), Lookup(to))
        isForbidden   == forbiddenTransition(from, to)
        deltaLogic    == logicResidualFromRule(isForbidden)
        deltaTemporal == temporalResidualFromDistance(dist)
        div           == calcDiv(deltaLogic, deltaTemporal)
    IN  [ dist          |-> dist,
          isForbidden   |-> isForbidden,
          deltaLogic    |-> deltaLogic,
          deltaTemporal |-> deltaTemporal,
          div           |-> div,
          verdict       |-> verdictFromDivergence(deltaLogic, deltaTemporal, div) ]

DeltaOf(e) ==
    [ logicResidual    |-> e.deltaLogic,
      temporalResidual |-> e.deltaTemporal,
      divergence       |-> e.div ]

\* Math.max(0, Math.min(1, 1 - div))
consensusStrength(div) == MathMax(0, MathMin(Num(1), Sub(Num(1), div)))

\* a route that never reads the tail
GenesisAlways(chain) == "GENESIS"

\* the tail hash the route hands to appendProof
prevHashOf(chain) ==
    IF Len(chain) # 0 THEN chain[Len(chain)].hash ELSE "GENESIS"

\* the counterpart charged like the primary actor
FullDivergence(div, fraction) == MathMin(div, Num(1))

\* Math.min(div * fraction, 1)
counterpartDivergence(div, fraction) == MathMin(Mul(div, fraction), Num(1))

\* { [actorA]: {...}, [actorB]: {...} }: the later property wins on equal names
IntegrityUpdates(actorA, actorB, preA, postA, preB, postB) ==
    [ a \in {actorA, actorB} |->
        IF a = actorB
        THEN [before |-> preB, after |-> postB, change |-> Sub(postB, preB)]
        ELSE [before |-> preA, after |-> postA, change |-> Sub(postA, preA)] ]

\* both calls computed from the table as it was before the first
UpdateBothStale(m, actorA, actorB, domain, div, fraction, t) ==
    [ m1 |-> updateIntegrity(m, actorA, domain, div, t),
      m2 |-> updateIntegrity(m, actorB, domain,
                             counterpartDivergence(div, fraction), t) ]

\* the two updateIntegrity calls of a transition, in program order
UpdateBoth(m, actorA, actorB, domain, div, fraction, t) ==
    LET m1 == updateIntegrity(m, actorA, domain, div, t)
    IN  [ m1 |-> m1,
          m2 |-> updateIntegrity(m1, actorB, domain,
                                 counterpartDivergence(div, fraction), t) ]

\* a route without the early return on REJECT
AcceptsAll(verdict) == TRUE

\* whether the route extends the chain for this verdict
Accepts(verdict) == verdict # "REJECT"

\* a rejection that returns before touching the integrity table
RejectedUntracked(chain, m, r, e, u, t) ==
    [ chain     |-> chain,
      integrity |-> m,
      updates   |-> <<>>,
      res |-> [ op      |-> "transition",
                status  |-> 400,
                ok      |-> FALSE,
                error   |-> "Invalid transition rejected by Dual-Baseline Telemetry",
                delta   |-> DeltaOf(e),
                verdict |-> e.verdict,
                chainExtended |-> FALSE,
                timestamp |-> t ] ]

\* a refusal that seals the refused transition into the ledger all the same
RejectedSealed(chain, m, r, e, u, t) ==
    [ chain     |-> appendProof(chain, [from |-> r.from, to |-> r.to,
                                        deltaLogic |-> e.deltaLogic,
                                        deltaTemporal |-> e.deltaTemporal,
                                        divergence |-> e.div, delta |-> e.dist,
                                        prevHash |-> prevHashOf(chain)]),
      integrity |-> u.m2,
      updates   |-> << <<r.actorA, r.domain, e.div>>,
                       <<r.actorB, r.domain, counterpartDivergence(e.div, 3000)>> >>,
      res |-> [ op      |-> "transition",
                status  |-> 400,
                ok      |-> FALSE,
                error   |-> "Invalid transition rejected by Dual-Baseline Telemetry",
                delta   |-> DeltaOf(e),
                verdict |-> e.verdict,
                integrityUpdates |->
                    IntegrityUpdates(r.actorA, r.actorB,
                        getIntegrity(m, r.actorA, r.domain),
                        u.m1[key(r.actorA, r.domain)].integrity,
                        getIntegrity(m, r.actorB, r.domain),
                        u.m2[key(r.actorB, r.domain)].integrity),
                chainExtended |-> FALSE,
                timestamp |-> t ] ]

\* the verdict === 'REJECT' branch: both updates, no append, status 400
Rejected(chain, m, r, e, u, t) ==
    [ chain     |-> chain,
      integrity |-> u.m2,
      updates   |-> << <<r.actorA, r.domain, e.div>>,
                       <<r.actorB, r.domain, counterpartDivergence(e.div, 3000)>> >>,
      res |-> [ op      |-> "transition",
                status  |-> 400,
                ok      |-> FALSE,
                error   |-> "Invalid transition rejected by Dual-Baseline Telemetry",
                delta   |-> DeltaOf(e),
                verdict |-> e.verdict,
                integrityUpdates |->
                    IntegrityUpdates(r.actorA, r.actorB,
                        getIntegrity(m, r.actorA, r.domain),
                        u.m1[key(r.actorA, r.domain)].integrity,
                        getIntegrity(m, r.actorB, r.domain),
                        u.m2[key(r.actorB, r.domain)].integrity),
                chainExtended |-> FALSE,
                timestamp |-> t ] ]

\* an acceptance that reports the ledger as it was before the append
AcceptedStale(chain1, m, r, e, u, t) ==
    LET chain0 == SubSeq(chain1, 1, Len(chain1) - 1)
    IN  [ chain     |-> chain1,
          integrity |-> u.m2,
          updates   |-> << <<r.actorA, r.domain, e.div>>,
                           <<r.actorB, r.domain, counterpartDivergence(e.div, 5000)>> >>,
          res |-> [ op         |-> "transition",
                    status     |-> 200,
                    ok         |-> TRUE,
                    newState   |-> r.to,
                    proofHash  |-> prevHashOf(chain0),
                    proofIndex |-> Len(chain0),
                    delta      |-> DeltaOf(e),
                    verdict    |-> e.verdict,
                    consensusStrength |-> consensusStrength(e.div),
                    integrityUpdates |->
                        IntegrityUpdates(r.actorA, r.actorB,
                            getIntegrity(m, r.actorA, r.domain),
                            u.m1[key(r.actorA, r.domain)].integrity,
                            getIntegrity(m, r.actorB, r.domain),
                            u.m2[key(r.actorB, r.domain)].integrity),
                    chainExtended |-> TRUE,
                    chainLength   |-> Len(chain0),
                    timestamp     |-> t ] ]

\* the accepting branch: chain1 is the extended chain, then both updates
Accepted(chain1, m, r, e, u, t) ==
    [ chain     |-> chain1,
      integrity |-> u.m2,
      updates   |-> << <<r.actorA, r.domain, e.div>>,
                       <<r.actorB, r.domain, counterpartDivergence(e.div, 5000)>> >>,
      res |-> [ op         |-> "transition",
                status     |-> 200,
                ok         |-> TRUE,
                newState   |-> r.to,
                proofHash  |-> chain1[Len(chain1)].hash,
                proofIndex |-> chain1[Len(chain1)].idx,
                delta      |-> DeltaOf(e),
                verdict    |-> e.verdict,
                consensusStrength |-> consensusStrength(e.div),
                integrityUpdates |->
                    IntegrityUpdates(r.actorA, r.actorB,
                        getIntegrity(m, r.actorA, r.domain),
                        u.m1[key(r.actorA, r.domain)].integrity,
                        getIntegrity(m, r.actorB, r.domain),
                        u.m2[key(r.actorB, r.domain)].integrity),
                chainExtended |-> TRUE,
                chainLength   |-> Len(chain1),
                timestamp     |-> t ] ]

\* the transition handed to appendProof
ProofInput(chain, r, e) ==
    [ from          |-> r.from,
      to            |-> r.to,
      delta         |-> e.dist,
      prevHash      |-> prevHashOf(chain),
      deltaLogic    |-> e.deltaLogic,
      deltaTemporal |-> e.deltaTemporal,
      divergence    |-> e.div ]

\* the handler once the states are known to be configured; e is the engine's
\* result for (r.from, r.to)
Decide(chain, m, r, e, t) ==
    IF ~Accepts(e.verdict)
    THEN Rejected(chain, m, r, e,
                  UpdateBoth(m, r.actorA, r.actorB, r.domain, e.div, 3000, t), t)
    ELSE Accepted(appendProof(chain, ProofInput(chain, r, e)), m, r, e,
                  UpdateBoth(m, r.actorA, r.actorB, r.domain, e.div, 5000, t), t)

\* the handler on the destructured body
Handle(chain, m, r, t) ==
    IF InvalidStates(r.from, r.to)
    THEN [chain |-> chain, integrity |-> m, updates |-> <<>>,
          res |-> ValidationError("transition")]
    ELSE Decide(chain, m, r, Engine(r.from, r.to), t)

\* POST /api/transition: the chain, the table and the response it leaves,
\* and the update calls it made (for the history)
TransitionOutcome(chain, m, body, t) == Handle(chain, m, Destructure(body), t)

\* an actor context that always shows the defaults
ActorContextPrior(m, actorId, domain) ==
    [integrity |-> 8500, interactions |-> 0, averageDivergence |-> 3000]

\* detailsX?.interactionCount ?? 0, detailsX?.averageDivergence ?? 0.3
ActorContext(m, actorId, domain) ==
    LET details == getIntegrityDetails(m, actorId, domain)
    IN  [ integrity         |-> getIntegrity(m, actorId, domain),
          interactions      |-> IF details.isNull THEN 0
                                ELSE details.row.interactionCount,
          averageDivergence |-> IF details.isNull THEN 3000
                                ELSE details.row.averageDivergence ]

\* POST /api/detect: the response
DetectResponse(m, body, t) ==
    LET r == Destructure(body)
    IN  IF InvalidStates(r.from, r.to)
        THEN ValidationError("detect")
        ELSE
        LET e == Engine(r.from, r.to)
        IN  [ op      |-> "detect",
              status  |-> 200,
              dist    |-> e.dist,
              delta   |-> DeltaOf(e),
              verdict |-> e.verdict,
              consensusStrength |-> consensusStrength(e.div),
              description |-> "Transition " \o r.from \o "->" \o r.to,
              actors  |-> [ a \in {r.actorA, r.actorB} |->
                              IF a = r.actorB
                              THEN ActorContext(m, r.actorB, r.domain)
                              ELSE ActorContext(m, r.actorA, r.domain) ],
              timestamp |-> t ]

\* GET /api/proofchain: the response
ProofChainResponse(chain) ==
    [op |-> "proofchain", status |-> 200, chain |-> getProofChain(chain)]

----------------------------------------------------------------------------
(* Bounds and inputs *)

MaxOps == 3

Actors == {"u", "v"}

Domains == {"d"}

\* an accepted pair, the two kinds of refused request, and an inherited name
Pairs == { <<"chaos", "conflict">>, <<"chaos", "peace">>,
           <<"void", "peace">>, <<"constructor", "chaos">> }

ActorPairs == { <<"u", "v">>, <<"u", "u">> }

Bodies ==
    { [from |-> p[1], to |-> p[2], actorA |-> ab[1], actorB |-> ab[2], domain |-> d] :
        p \in Pairs, ab \in ActorPairs, d \in Domains }
    \cup { [from |-> "conflict", to |-> "reflect"] }

\* divergences handed to update directly: none, the scenario value, above 1
UpdateDivs == {0, 9000, 15000}

Clients == {"c1", "c2"}

None == [op |-> "none"]

----------------------------------------------------------------------------
(* History *)

EmptyMap == [x \in {} |-> None]

RecordUpdate(h, u) ==
    LET k == key(u[1], u[2])
    IN  MapSet(h, k, IF k \in DOMAIN h THEN Append(h[k], u) ELSE <<u>>)

RECURSIVE RecordUpdates(_, _)
RecordUpdates(h, updates) ==
    IF updates = <<>> THEN h
    ELSE RecordUpdates(RecordUpdate(h, Head(updates)), Tail(updates))

----------------------------------------------------------------------------
(* The state machine *)

Init ==
    /\ SKYLA_CHAIN = <<>>
    /\ SKYLA_INTEGRITY = EmptyMap
    /\ res = None
    /\ pending = [c \in Clients |-> None]
    /\ hist = EmptyMap
    /\ ops = 0

\* Date.now(): every operation is served at a later instant than the last
DateNow == ops

\* what serving POST /api/transition does to the singletons
TransitionStep(body) ==
    \E o \in {TransitionOutcome(SKYLA_CHAIN, SKYLA_INTEGRITY, body, DateNow)} :
        /\ SKYLA_CHAIN' = o.chain
        /\ SKYLA_INTEGRITY' = o.integrity
        /\ res' = o.res
        /\ hist' = RecordUpdates(hist, o.updates)

\* what serving POST /api/detect does
DetectStep(body) ==
    /\ res' = DetectResponse(SKYLA_INTEGRITY, body, DateNow)
    /\ UNCHANGED <<SKYLA_CHAIN, SKYLA_INTEGRITY, hist>>

\* what serving GET /api/proofchain does
ProofChainStep ==
    /\ res' = ProofChainResponse(SKYLA_CHAIN)
    /\ UNCHANGED <<SKYLA_CHAIN, SKYLA_INTEGRITY, hist>>

Served == ops < MaxOps /\ ops' = ops + 1 /\ UNCHANGED pending

Transition(body) == Served /\ TransitionStep(body)

Detect(body) == Served /\ DetectStep(body)

ProofChain == Served /\ ProofChainStep

\* updateIntegrity(actorId, domain, div)
Update(actorId, domain, div) ==
    /\ Served
    /\ SKYLA_INTEGRITY' = updateIntegrity(SKYLA_INTEGRITY, actorId, domain, div, DateNow)
    /\ res' = [op |-> "update", actorId |-> actorId, domain |-> domain,
               value |-> SKYLA_INTEGRITY'[key(actorId, domain)].integrity]
    /\ hist' = RecordUpdate(hist, <<actorId, domain, div>>)
    /\ UNCHANGED SKYLA_CHAIN

\* getIntegrity(actorId, domain)
Read(actorId, domain) ==
    /\ Served
    /\ res' = [op |-> "read", actorId |-> actorId, domain |-> domain,
               value |-> getIntegrity(SKYLA_INTEGRITY, actorId, domain)]
    /\ UNCHANGED <<SKYLA_CHAIN, SKYLA_INTEGRITY, hist>>

\* getIntegrityTrend(actorId, domain)
Trend(actorId, domain) ==
    /\ Served
    /\ res' = [op |-> "trend", actorId |-> actorId, domain |-> domain,
               value |-> getIntegrityTrend(SKYLA_INTEGRITY, actorId, domain)]
    /\ UNCHANGED <<SKYLA_CHAIN, SKYLA_INTEGRITY, hist>>

\* getActorSummary(actorId)
Summarize(actorId) ==
    /\ Served
    /\ res' = [op |-> "summarize", actorId |-> actorId,
               value |-> getActorSummary(SKYLA_INTEGRITY, actorId)]
    /\ UNCHANGED <<SKYLA_CHAIN, SKYLA_INTEGRITY, hist>>

\* resetIntegrity(actorId, domain)
ResetIntegrity(actorId, domain) ==
    /\ Served
    /\ SKYLA_INTEGRITY' = resetIntegrity(SKYLA_INTEGRITY, actorId, domain)
    /\ res' = [op |-> "resetIntegrity", actorId |-> actorId, domain |-> domain]
    /\ hist' = MapDelete(hist, key(actorId, domain))
    /\ UNCHANGED SKYLA_CHAIN

\* resetProofChain()
ResetChain ==
    /\ Served
    /\ SKYLA_CHAIN' = resetProofChain
    /\ res' = [op |-> "resetProofChain"]
    /\ UNCHANGED <<SKYLA_INTEGRITY, hist>>

Next ==
    \/ \E body \in Bodies : Transition(body)
    \/ \E body \in Bodies : Detect(body)
    \/ ProofChain
    \/ \E a \in Actors, d \in Domains, div \in UpdateDivs : Update(a, d, div)
    \/ \E a \in Actors, d \in Domains : Read(a, d)
    \/ \E a \in Actors, d \in Domains : Trend(a, d)
    \/ \E a \in Actors : Summarize(a)
    \/ \E a \in Actors, d \in Domains : ResetIntegrity(a, d)
    \/ ResetChain

Spec == Init /\ [][Next]_vars

----------------------------------------------------------------------------
(* Requests in flight: the handlers contain no await, so each one runs to  *)
(* completion once started; concurrent requests are served one whole       *)
(* handler at a time, in any order.                                        *)

ConcBodies ==
    { [from |-> "chaos", to |-> "conflict", actorA |-> "u", actorB |-> "v", domain |-> "d"],
      [from |-> "chaos", to |-> "conflict", actorA |-> "v", actorB |-> "v", domain |-> "d"],
      [from |-> "conflict", to |-> "reflect", actorA |-> "v", actorB |-> "u", domain |-> "d"],
      [from |-> "chaos", to |-> "peace", actorA |-> "u", actorB |-> "u", domain |-> "d"] }

InFlight == {c \in Clients : pending[c] # None}

\* a client sends a request
Submit(c, op, body) ==
    /\ pending[c] = None
    /\ ops + Cardinality(InFlight) < MaxOps
    /\ pending' = [pending EXCEPT ![c] = [op |-> op, body |-> body, sentAt |-> DateNow]]
    /\ UNCHANGED <<SKYLA_CHAIN, SKYLA_INTEGRITY, res, hist, ops>>

\* the server runs the transition handler for c's request
ServeTransition(c) ==
    /\ pending[c].op = "transition"
    /\ TransitionStep(pending[c].body)
    /\ pending' = [pending EXCEPT ![c] = None]
    /\ ops' = ops + 1

\* the server runs the detect handler for c's request
ServeDetect(c) ==
    /\ pending[c].op = "detect"
    /\ DetectStep(pending[c].body)
    /\ pending' = [pending EXCEPT ![c] = None]
    /\ ops' = ops + 1

NextConc ==
    \/ \E c \in Clients, body \in ConcBodies : Submit(c, "transition", body)
    \/ \E c \in Clients, body \in ConcBodies : Submit(c, "detect", body)
    \/ \E c \in Clients : ServeTransition(c)
    \/ \E c \in Clients : ServeDetect(c)
    \/ \E a \in Actors, d \in Domains : ResetIntegrity(a, d)

SpecConc == Init /\ [][NextConc]_vars

----------------------------------------------------------------------------
(* The engine alone: Detect over every pair of names, and the verdict      *)
(* cascade over a grid of residuals.                                       *)

EngineNames == StateNames \cup {"void", "constructor", "__proto__"}

EngineBodies == { [from |-> f, to |-> t] : f \in EngineNames, t \in EngineNames }

Residuals == {0, 5000, Num(1)}

Grid == {0, 4500, 4501, 6500, 6501, 8500, 8501, Num(1), 12000, NaN}

\* verdictFromDivergence(deltaLogic, deltaTemporal, div)
Classify(deltaLogic, deltaTemporal, div) ==
    /\ Served
    /\ res' = [ op |-> "verdict", deltaLogic |-> deltaLogic,
                deltaTemporal |-> deltaTemporal, div |-> div,
                verdict |-> verdictFromDivergence(deltaLogic, deltaTemporal, div) ]
    /\ UNCHANGED <<SKYLA_CHAIN, SKYLA_INTEGRITY, hist>>

NextEngine ==
    \/ \E body \in EngineBodies : Detect(body)
    \/ \E dl \in Residuals, dt \in Grid, div \in Grid : Classify(dl, dt, div)

SpecEngine == Init /\ [][NextEngine]_vars

----------------------------------------------------------------------------
(* The ledger alone: Transition, Detect, chain export, reset, and direct    *)
(* calls of appendProof on the ledger's array.                              *)

LedgerBodies ==
    { [from |-> "chaos", to |-> "conflict", actorA |-> "u", actorB |-> "v", domain |-> "d"],
      [from |-> "chaos", to |-> "chaos", actorA |-> "u", actorB |-> "u", domain |-> "d"],
      [from |-> "chaos", to |-> "peace", actorA |-> "u", actorB |-> "v", domain |-> "d"],
      [from |-> "constructor", to |-> "chaos", actorA |-> "u", actorB |-> "u", domain |-> "d"],
      [from |-> "conflict", to |-> "reflect"] }

\* transitions handed to appendProof directly, with and without the
\* optional metrics
ProofInputs ==
    { [ from |-> "chaos", to |-> "conflict", delta |-> 4000, prevHash |-> h,
        deltaLogic |-> x, deltaTemporal |-> x, divergence |-> x ] :
        h \in {"GENESIS", "h"}, x \in {Undefined, 800} }

\* appendProof(globalThis.SKYLA_CHAIN, transition), the result not stored
AppendCall(transition) ==
    /\ Served
    /\ \E o \in {appendProofCall(SKYLA_CHAIN, transition)} :
         /\ SKYLA_CHAIN' = o.chain
         /\ res' = [op |-> "appendProof", returned |-> o.returned]
    /\ UNCHANGED <<SKYLA_INTEGRITY, hist>>

NextLedger ==
    \/ \E body \in LedgerBodies : Transition(body)
    \/ \E body \in LedgerBodies : Detect(body)
    \/ ProofChain
    \/ ResetChain
    \/ \E transition \in ProofInputs : AppendCall(transition)

SpecLedger == Init /\ [][NextLedger]_vars

----------------------------------------------------------------------------
(* appendProof on transitions whose optional metrics are absent, 0 or set *)

OptionalFields == {"deltaLogic", "deltaTemporal", "divergence"}

HashInputs ==
    { [ from |-> "chaos", to |-> "conflict", delta |-> 4000, prevHash |-> h,
        deltaLogic |-> x, deltaTemporal |-> y, divergence |-> z ] :
        h \in {"GENESIS", "h"},
        x \in {Undefined, 0, 800}, y \in {Undefined, 0, 800}, z \in {Undefined, 0, 800} }

NextHash == \E transition \in HashInputs : AppendCall(transition)

SpecHash == Init /\ [][NextHash]_vars

----------------------------------------------------------------------------
(* The integrity tracker alone *)

NextIntegrity ==
    \/ \E a \in Actors, d \in Domains, div \in UpdateDivs : Update(a, d, div)
    \/ \E a \in Actors, d \in Domains : Read(a, d)
    \/ \E a \in Actors, d \in Domains : Trend(a, d)
    \/ \E a \in Actors : Summarize(a)
    \/ \E a \in Actors, d \in Domains : ResetIntegrity(a, d)

SpecIntegrity == Init /\ [][NextIntegrity]_vars

----------------------------------------------------------------------------
(* The integrity tracker with identifiers that contain the key delimiter *)

KeyActors == {"u", "u::d"}

KeyDomains == {"d", "d::d"}

\* getIntegrityDetails(actorId, domain)
Details(actorId, domain) ==
    /\ Served
    /\ res' = [op |-> "details", actorId |-> actorId, domain |-> domain,
               value |-> getIntegrityDetails(SKYLA_INTEGRITY, actorId, domain)]
    /\ UNCHANGED <<SKYLA_CHAIN, SKYLA_INTEGRITY, hist>>

NextKeys ==
    \/ \E a \in KeyActors, d \in KeyDomains : Update(a, d, 9000)
    \/ \E a \in KeyActors, d \in KeyDomains : Read(a, d)
    \/ \E a \in KeyActors, d \in KeyDomains : Trend(a, d)
    \/ \E a \in KeyActors, d \in KeyDomains : Details(a, d)
    \/ \E a \in KeyActors, d \in KeyDomains : ResetIntegrity(a, d)

SpecKeys == Init /\ [][NextKeys]_vars

----------------------------------------------------------------------------
(* Repeated updates of one key, as in the scenario of ten calls in a row *)

MaxCalls == 10

\* the scenario's divergence, and one above 1
RepeatDivs == {9000, 15000}

\* updateIntegrity(actorId, domain, div), up to MaxCalls calls for the key
UpdateAgain(actorId, domain, div) ==
    /\ LET k == key(actorId, domain)
       IN  k \in DOMAIN SKYLA_INTEGRITY =>
             SKYLA_INTEGRITY[k].interactionCount < MaxCalls
    /\ SKYLA_INTEGRITY' = updateIntegrity(SKYLA_INTEGRITY, actorId, domain, div, DateNow)
    /\ res' = [op |-> "update", actorId |-> actorId, domain |-> domain,
               value |-> SKYLA_INTEGRITY'[key(actorId, domain)].integrity]
    /\ hist' = RecordUpdate(hist, <<actorId, domain, div>>)
    /\ ops' = ops + 1
    /\ UNCHANGED <<SKYLA_CHAIN, pending>>

NextRepeat == \E div \in RepeatDivs : UpdateAgain("u", "d", div)

SpecRepeat == Init /\ [][NextRepeat]_vars

----------------------------------------------------------------------------
(* The same pairs of states sent by different actors in different domains *)

PureBodies ==
    { [from |-> "chaos", to |-> "conflict", actorA |-> "u", actorB |-> "v", domain |-> "d"],
      [from |-> "chaos", to |-> "conflict", actorA |-> "v", actorB |-> "u", domain |-> "e"],
      [from |-> "chaos", to |-> "conflict"],
      [from |-> "chaos", to |-> "peace", actorA |-> "u", actorB |-> "v", domain |-> "d"],
      [from |-> "chaos", to |-> "peace", actorA |-> "v", actorB |-> "v", domain |-> "e"] }

NextPure ==
    \/ \E body \in PureBodies : Transition(body)
    \/ \E body \in PureBodies : Detect(body)
    \/ ResetChain

SpecPure == Init /\ [][NextPure]_vars

----------------------------------------------------------------------------
(* A caller of getProofChain and what it does with the array it gets.  The  *)
(* array is an object of its own; its elements are references: an entry is  *)
(* either the ledger's node object at a position or an object the caller    *)
(* made.                                                                    *)

\* [...(globalThis.SKYLA_CHAIN || [])] as objects: a new array that holds
\* the ledger's node objects themselves (the spread copies the references)
getProofChainCall(chain) == [i \in 1..Len(chain) |-> [own |-> FALSE, at |-> i]]

\* a node object made by the caller
ForgedNode ==
    [ idx |-> 0, from |-> "peace", to |-> "chaos", delta |-> 0, prevHash |-> "GENESIS",
      deltaLogic |-> 0, deltaTemporal |-> 0, divergence |-> 0, hash |-> "forged" ]

\* const snapshot = getProofChain()
Snapshot ==
    /\ Served
    /\ res' = [op |-> "snapshot", entries |-> getProofChainCall(SKYLA_CHAIN)]
    /\ UNCHANGED <<SKYLA_CHAIN, SKYLA_INTEGRITY, hist>>

\* snapshot.push(node)
CallerPush ==
    /\ res.op = "snapshot"
    /\ Served
    /\ res' = [res EXCEPT !.entries = Append(@, [own |-> TRUE, node |-> ForgedNode])]
    /\ UNCHANGED <<SKYLA_CHAIN, SKYLA_INTEGRITY, hist>>

\* snapshot.pop()
CallerPop ==
    /\ res.op = "snapshot"
    /\ Len(res.entries) > 0
    /\ Served
    /\ res' = [res EXCEPT !.entries = SubSeq(@, 1, Len(@) - 1)]
    /\ UNCHANGED <<SKYLA_CHAIN, SKYLA_INTEGRITY, hist>>

\* snapshot[i] = node
CallerReplace(i) ==
    /\ res.op = "snapshot"
    /\ i \in 1..Len(res.entries)
    /\ Served
    /\ res' = [res EXCEPT !.entries[i] = [own |-> TRUE, node |-> ForgedNode]]
    /\ UNCHANGED <<SKYLA_CHAIN, SKYLA_INTEGRITY, hist>>

\* snapshot[i][f] = v: a write to the object the entry refers to
CallerWrite(i, f, v) ==
    /\ res.op = "snapshot"
    /\ i \in 1..Len(res.entries)
    /\ Served
    /\ IF res.entries[i].own
       THEN /\ res' = [res EXCEPT !.entries[i].node[f] = v]
            /\ UNCHANGED SKYLA_CHAIN
       ELSE /\ SKYLA_CHAIN' = [SKYLA_CHAIN EXCEPT ![res.entries[i].at][f] = v]
            /\ UNCHANGED res
    /\ UNCHANGED <<SKYLA_INTEGRITY, hist>>

NextSnapshot ==
    \/ \E body \in LedgerBodies : Transition(body)
    \/ Snapshot
    \/ CallerPush
    \/ CallerPop
    \/ \E i \in 1..MaxOps : CallerReplace(i)
    \/ \E i \in 1..MaxOps, f \in {"to", "hash"} : CallerWrite(i, f, "forged")

SpecSnapshot == Init /\ [][NextSnapshot]_vars

----------------------------------------------------------------------------
(* The divergence scalar over a grid of residuals in [0, 1] *)

ResidualGrid == {i * 1000 : i \in 0..10}

\* divergence(deltaLogic, deltaTemporal) with the default context and weights
Diverge(deltaLogic, deltaTemporal) ==
    /\ Served
    /\ res' = [ op |-> "divergence", deltaLogic |-> deltaLogic,
                deltaTemporal |-> deltaTemporal,
                value |-> divergence(deltaLogic, deltaTemporal, <<>>) ]
    /\ UNCHANGED <<SKYLA_CHAIN, SKYLA_INTEGRITY, hist>>

NextDivergence == \E dl \in ResidualGrid, dt \in ResidualGrid : Diverge(dl, dt)

SpecDivergence == Init /\ [][NextDivergence]_vars

----------------------------------------------------------------------------
(* Long runs of updates with a divergence of 1 or more *)

MaxFloorCalls == 18

\* the divergence each actor is observed with: exactly 1, and above 1
FloorDivs == [u |-> 15000, v |-> 10000]

\* updateIntegrity(actorId, "d", FloorDivs[actorId]), at most MaxFloorCalls
\* times per key
UpdateFloor(actorId) ==
    /\ LET k == key(actorId, "d")
       IN  k \in DOMAIN SKYLA_INTEGRITY =>
             SKYLA_INTEGRITY[k].interactionCount < MaxFloorCalls
    /\ SKYLA_INTEGRITY' = updateIntegrity(SKYLA_INTEGRITY, actorId, "d", FloorDivs[actorId], DateNow)
    /\ res' = [op |-> "update", actorId |-> actorId, domain |-> "d",
               value |-> SKYLA_INTEGRITY'[key(actorId, "d")].integrity]
    /\ hist' = RecordUpdate(hist, <<actorId, "d", FloorDivs[actorId]>>)
    /\ ops' = ops + 1
    /\ UNCHANGED <<SKYLA_CHAIN, pending>>

NextFloor == \E a \in DOMAIN FloorDivs : UpdateFloor(a)

SpecFloor == Init /\ [][NextFloor]_vars

----------------------------------------------------------------------------
(* A refused Transition on a record that earlier updates have worn down *)

WearDivs == {15000}

RejectBodies ==
    { [from |-> "chaos", to |-> "peace", actorA |-> "u", actorB |-> "v", domain |-> "d"] }

\* POST /api/transition, served while actorA's record has at most MaxCalls
\* interactions
TransitionAgain(body) ==
    /\ LET k == key(body.actorA, body.domain)
       IN  k \in DOMAIN SKYLA_INTEGRITY =>
             SKYLA_INTEGRITY[k].interactionCount <= MaxCalls
    /\ TransitionStep(body)
    /\ ops' = ops + 1
    /\ UNCHANGED pending

NextReject ==
    \/ \E div \in WearDivs : UpdateAgain("u", "d", div)
    \/ \E body \in RejectBodies : TransitionAgain(body)

SpecReject == Init /\ [][NextReject]_vars

----------------------------------------------------------------------------
(* Actors with records in several domains, and their summaries *)

SumDomains == {"d", "e"}

SumDivs == {0, 9000}

\* a request that the state check lets through with an inherited name
SumBodies ==
    { [from |-> "constructor", to |-> "chaos", actorA |-> "u", actorB |-> "v", domain |-> "e"] }

NextSummary ==
    \/ \E a \in Actors, d \in SumDomains, div \in SumDivs : Update(a, d, div)
    \/ \E a \in Actors : Summarize(a)
    \/ \E a \in Actors, d \in SumDomains : ResetIntegrity(a, d)
    \/ \E body \in SumBodies : Transition(body)

SpecSummary == Init /\ [][NextSummary]_vars

----------------------------------------------------------------------------
(* Properties *)

\* interactionCount of the record stored under k, 0 when there is none
Count(m, k) == IF k \in DOMAIN m THEN m[k].interactionCount ELSE 0

\* number of update calls recorded for k since the record was created or reset
Calls(h, k) == IF k \in DOMAIN h THEN Len(h[k]) ELSE 0

RECURSIVE TotalCalls(_, _)
TotalCalls(h, ks) ==
    IF ks = {} THEN 0
    ELSE LET k == CHOOSE x \in ks : TRUE
         IN  Len(h[k]) + TotalCalls(h, ks \ {k})

Linked(chain) ==
    /\ Len(chain) > 0 => chain[1].prevHash = "GENESIS"
    /\ \A i \in 2..Len(chain) : chain[i].prevHash = chain[i - 1].hash

Sequential(chain) == \A i \in 1..Len(chain) : chain[i].idx = i - 1

InRange(x) == IsNum(x) /\ 500 <= x /\ x <= Num(1)

\* C1: after any sequence of Transition requests and ledger resets the ledger
\* is hash-linked: the first node's prevHash is 'GENESIS' and every later
\* node's prevHash is the hash of the node before it.
C1_HashLinked == Linked(SKYLA_CHAIN)

\* a chain of at least two nodes, the second linked to the first
C1_Witness ==
    /\ Len(SKYLA_CHAIN) >= 2
    /\ SKYLA_CHAIN[2].prevHash = SKYLA_CHAIN[1].hash
    /\ SKYLA_CHAIN[1].prevHash = "GENESIS"

\* C2: after any sequence of Transition requests and ledger resets the node
\* at position i of the ledger (counted from 0) has idx = i.
C2_SequentialIdx == Sequential(SKYLA_CHAIN)

\* three accepted transitions in a row: idx 0, 1, 2
C2_Witness ==
    /\ Len(SKYLA_CHAIN) = 3
    /\ SKYLA_CHAIN[3].idx = 2

\* C3: a Transition request appends exactly one node to the ledger if and
\* only if it has a verdict and the verdict is not REJECT; a Transition whose
\* verdict is REJECT leaves the ledger unchanged.
C3_AppendIffNotReject ==
    [][ res'.op = "transition" =>
          \A body \in Bodies : Transition(body) =>
            LET judged == "verdict" \in DOMAIN res'
                n      == Len(SKYLA_CHAIN)
            IN  /\ (judged /\ res'.verdict # "REJECT") <=> (SKYLA_CHAIN' # SKYLA_CHAIN)
                /\ SKYLA_CHAIN' # SKYLA_CHAIN =>
                     /\ Len(SKYLA_CHAIN') = n + 1
                     /\ SubSeq(SKYLA_CHAIN', 1, n) = SKYLA_CHAIN
                /\ (judged /\ res'.verdict = "REJECT") => SKYLA_CHAIN' = SKYLA_CHAIN
      ]_vars

\* a rejected Transition served while the ledger holds two nodes
C3_Witness ==
    /\ res.op = "transition"
    /\ res.status = 400
    /\ "verdict" \in DOMAIN res
    /\ res.verdict = "REJECT"
    /\ Len(SKYLA_CHAIN) = 2

\* C4: every Transition request whose from and to are configured states
\* makes exactly two update calls, one for actorA and one for actorB, whatever
\* the verdict: each actor's interactionCount rises by 1, or by 2 on a single
\* record when both name the same key; no other record's count changes.
C4_BothActorsUpdated ==
    [][ res'.op = "transition" =>
          \A body \in Bodies :
            LET r  == Destructure(body)
                kA == key(r.actorA, r.domain)
                kB == key(r.actorB, r.domain)
            IN  (Transition(body) /\ r.from \in StateNames /\ r.to \in StateNames) =>
                  /\ TotalCalls(hist', DOMAIN hist') = TotalCalls(hist, DOMAIN hist) + 2
                  /\ \A k \in (DOMAIN SKYLA_INTEGRITY') \cup (DOMAIN SKYLA_INTEGRITY) \cup {kA, kB} :
                       Count(SKYLA_INTEGRITY', k) =
                         Count(SKYLA_INTEGRITY, k) + (IF k = kA THEN 1 ELSE 0)
                                                   + (IF k = kB THEN 1 ELSE 0)
      ]_vars

\* a rejected first request with actorA = actorB: one record, count 2
C4_Witness ==
    /\ ops = 1
    /\ res.op = "transition"
    /\ res.status = 400
    /\ "verdict" \in DOMAIN res
    /\ DOMAIN SKYLA_INTEGRITY = {"u::d"}
    /\ SKYLA_INTEGRITY["u::d"].interactionCount = 2

\* C5: the integrity stored in any record, and the value returned by read and
\* update, is within [0.05, 1.0] after any sequence of operations.
C5_IntegrityInRange ==
    /\ \A k \in DOMAIN SKYLA_INTEGRITY : InRange(SKYLA_INTEGRITY[k].integrity)
    /\ res.op \in {"read", "update"} => InRange(res.value)

\* C6: for every key, interactionCount rises by exactly 1 with each update
\* call made for that key, is not changed by read, trend, summarize, Detect or
\* chain export, and falls only when reset deletes the record.
C6_CountMonotone ==
    [][ LET keys == (DOMAIN SKYLA_INTEGRITY') \cup (DOMAIN SKYLA_INTEGRITY)
        IN  /\ res'.op # "resetIntegrity" =>
                 \A k \in keys :
                   Count(SKYLA_INTEGRITY', k) - Count(SKYLA_INTEGRITY, k)
                     = Calls(hist', k) - Calls(hist, k)
            /\ \A a \in Actors, d \in Domains, div \in UpdateDivs :
                 Update(a, d, div) =>
                   Count(SKYLA_INTEGRITY', key(a, d)) = Count(SKYLA_INTEGRITY, key(a, d)) + 1
            /\ res'.op \in {"read", "trend", "summarize", "detect", "proofchain"} =>
                 \A k \in keys : Count(SKYLA_INTEGRITY', k) = Count(SKYLA_INTEGRITY, k)
            /\ \A k \in keys :
                 Count(SKYLA_INTEGRITY', k) < Count(SKYLA_INTEGRITY, k) =>
                   /\ res'.op = "resetIntegrity"
                   /\ k = key(res'.actorId, res'.domain)
                   /\ k \notin DOMAIN SKYLA_INTEGRITY'
      ]_vars

\* three update calls for one key, the last a direct update
C6_Witness ==
    /\ res.op = "update"
    /\ "u::d" \in DOMAIN SKYLA_INTEGRITY
    /\ SKYLA_INTEGRITY["u::d"].interactionCount = 3

\* C7: if from or to is not a configured state name, Detect and Transition
\* fail with a validation error that lists the valid state names, compute no
\* residuals, and leave the integrity table and the ledger unchanged.
C7_UnknownStateRefused ==
    [][ res'.op \in {"transition", "detect"} =>
          \A body \in Bodies :
            LET r == Destructure(body)
            IN  ((Transition(body) \/ Detect(body))
                   /\ (r.from \notin StateNames \/ r.to \notin StateNames)) =>
                  /\ res'.status = 400
                  /\ res'.error = "Invalid symbolic states"
                  /\ {res'.available[i] : i \in 1..Len(res'.available)} = StateNames
                  /\ "delta" \notin DOMAIN res'
                  /\ SKYLA_INTEGRITY' = SKYLA_INTEGRITY
                  /\ SKYLA_CHAIN' = SKYLA_CHAIN
      ]_vars

\* C8: under any interleaving of concurrent Transition requests, an accepted
\* request gets an idx and a prevHash that no node already in the ledger has,
\* the nodes already there are kept, and the ledger stays hash-linked with
\* sequential indices.
C8_RaceFreeAppend ==
    [][ /\ Linked(SKYLA_CHAIN') /\ Sequential(SKYLA_CHAIN')
        /\ \A i, j \in 1..Len(SKYLA_CHAIN') :
             i # j => /\ SKYLA_CHAIN'[i].idx # SKYLA_CHAIN'[j].idx
                      /\ SKYLA_CHAIN'[i].prevHash # SKYLA_CHAIN'[j].prevHash
        /\ \A c \in Clients :
             (ServeTransition(c) /\ res'.status = 200) =>
               LET n == Len(SKYLA_CHAIN)
               IN  /\ Len(SKYLA_CHAIN') = n + 1
                   /\ res'.proofIndex = SKYLA_CHAIN'[n + 1].idx
                   /\ \A i \in 1..n :
                        /\ SKYLA_CHAIN'[i] = SKYLA_CHAIN[i]
                        /\ SKYLA_CHAIN[i].idx # res'.proofIndex
                        /\ SKYLA_CHAIN[i].prevHash # SKYLA_CHAIN'[n + 1].prevHash
      ]_vars

\* one request accepted while another Transition, sent before any request was
\* served, is still in flight
C8_Witness ==
    /\ ops = 1
    /\ Len(SKYLA_CHAIN) = 1
    /\ \E c \in Clients :
         /\ pending[c] # None
         /\ pending[c].op = "transition"
         /\ pending[c].sentAt = 0

\* the table that the update calls of h, made in order on an empty table, leave
RECURSIVE Replay(_, _)
Replay(m, h) ==
    IF h = <<>> THEN m
    ELSE Replay(updateIntegrity(m, h[1][1], h[1][2], h[1][3], 0), Tail(h))

\* C9: under any interleaving of concurrent Transition requests no integrity
\* update is lost: every record's interactionCount is the number of update
\* calls made for its key since it was created or last reset, and its
\* integrity and averageDivergence are those of exactly these calls in order.
C9_NoLostUpdate ==
    /\ DOMAIN SKYLA_INTEGRITY = DOMAIN hist
    /\ \A k \in DOMAIN SKYLA_INTEGRITY :
         LET row == SKYLA_INTEGRITY[k]
             rep == Replay(EmptyMap, hist[k])[k]
         IN  /\ row.interactionCount = Len(hist[k])
             /\ row.integrity = rep.integrity
             /\ row.averageDivergence = rep.averageDivergence

\* a Transition that updated v twice has been served while another one for
\* v, sent before any request was served, is still in flight
C9_Witness ==
    /\ ops = 1
    /\ "v::d" \in DOMAIN SKYLA_INTEGRITY
    /\ SKYLA_INTEGRITY["v::d"].interactionCount = 2
    /\ \E c \in Clients :
         /\ pending[c] # None
         /\ pending[c].op = "transition"
         /\ pending[c].sentAt = 0
         /\ pending[c].body.actorA = "v"

\* C10: for every forbidden pair, evaluate yields logicResidual = 1 and the
\* verdict REJECT (chaos -> peace among them), and the verdict for
\* logicResidual = 1 is REJECT whatever the temporal residual and divergence.
C10_ForbiddenRejected ==
    /\ (res.op = "detect" /\ res.status = 200
          /\ \E i \in 1..Len(FORBIDDEN) :
               res.description = "Transition " \o FORBIDDEN[i][1] \o "->" \o FORBIDDEN[i][2])
         => /\ res.delta.logicResidual = Num(1)
            /\ res.verdict = "REJECT"
    /\ (res.op = "verdict" /\ res.deltaLogic = Num(1)) => res.verdict = "REJECT"

\* chaos -> peace evaluated: its divergence alone would not reject it
C10_Witness ==
    /\ res.op = "detect"
    /\ res.status = 200
    /\ res.description = "Transition chaos->peace"
    /\ res.verdict = "REJECT"
    /\ res.delta.divergence < 8500

\* C11: the verdict is REJECT when logicResidual >= 1; otherwise it is REJECT
\* for divergence above 0.85, SUSPICIOUS above 0.65, CAUTION above 0.45 and
\* VALID for anything else, the comparisons being strict: with
\* logicResidual < 1, divergence exactly 0.85 is SUSPICIOUS, exactly 0.65 is
\* CAUTION and exactly 0.45 is VALID.
C11_VerdictCascade ==
    res.op = "verdict" =>
      LET dl == res.deltaLogic
          d  == res.div
          v  == res.verdict
      IN  /\ dl >= Num(1) => v = "REJECT"
          /\ dl < Num(1) =>
                /\ v = "REJECT"     <=> (IsNum(d) /\ d > 8500)
                /\ v = "SUSPICIOUS" <=> (IsNum(d) /\ 6500 < d /\ d <= 8500)
                /\ v = "CAUTION"    <=> (IsNum(d) /\ 4500 < d /\ d <= 6500)
                /\ v = "VALID"      <=> (~IsNum(d) \/ d <= 4500)
                /\ d = 8500 => v = "SUSPICIOUS"
                /\ d = 6500 => v = "CAUTION"
                /\ d = 4500 => v = "VALID"

\* divergence exactly 0.85 with a logic residual below 1: SUSPICIOUS
C11_Witness ==
    /\ res.op = "verdict"
    /\ res.deltaLogic = 5000
    /\ res.div = 8500
    /\ res.verdict = "SUSPICIOUS"

\* C12: a Transition that reaches a verdict updates actorA with the full
\* observed divergence and then actorB with min(0.3 * divergence, 1) when the
\* verdict is REJECT and with min(0.5 * divergence, 1) when the transition is
\* accepted.
C12_CounterpartFraction ==
    [][ (res'.op = "transition" /\ "verdict" \in DOMAIN res') =>
          \A body \in Bodies : Transition(body) =>
            LET r    == Destructure(body)
                div  == Engine(r.from, r.to).div
                part == IF res'.verdict = "REJECT" THEN Mul(div, 3000)
                                                  ELSE Mul(div, 5000)
                divB == IF ~IsNum(part) THEN NaN
                        ELSE IF part < Num(1) THEN part ELSE Num(1)
                m1   == updateIntegrity(SKYLA_INTEGRITY, r.actorA, r.domain, div, DateNow)
                kA   == key(r.actorA, r.domain)
                kB   == key(r.actorB, r.domain)
            IN  /\ SKYLA_INTEGRITY' = updateIntegrity(m1, r.actorB, r.domain, divB, DateNow)
                /\ hist'[kB][Len(hist'[kB])] = <<r.actorB, r.domain, divB>>
                /\ LET hA == hist'[kA]
                   IN  hA[IF kA = kB THEN Len(hA) - 1 ELSE Len(hA)]
                         = <<r.actorA, r.domain, div>>
      ]_vars

\* u and v after a rejected and then an accepted Transition between them: v
\* was charged 30% and then 50% of what u was charged
C12_Witness ==
    /\ ops = 2
    /\ res.op = "transition"
    /\ res.status = 200
    /\ DOMAIN hist = {"u::d", "v::d"}
    /\ Len(hist["u::d"]) = 2
    /\ Len(hist["v::d"]) = 2
    /\ hist["u::d"][1][3] > 0
    /\ hist["v::d"][1][3] = Mul(hist["u::d"][1][3], 3000)
    /\ hist["u::d"][2][3] > 0
    /\ hist["v::d"][2][3] = Mul(hist["u::d"][2][3], 5000)

\* the fields of a node that the digest is taken over
StoredFields(node) == [f \in (DOMAIN node) \ {"hash"} |-> node[f]]

\* values a tamperer may write into field f
TamperValues(f, chain) ==
    IF f = "idx" THEN 0..(Len(chain) + 1)
    ELSE IF f \in {"from", "to"} THEN EngineNames
    ELSE IF f = "prevHash"
    THEN {"GENESIS", "h"} \cup {chain[j].hash : j \in 1..Len(chain)}
    ELSE IF f = "delta" THEN {0, 800, 4000, Num(1), NaN}
    ELSE {0, 800, 4000, Num(1), NaN, Undefined}

\* C13: in a ledger built by Transition requests, writing a different value
\* into any one of idx, from, to, delta, prevHash, deltaLogic, deltaTemporal,
\* divergence of any node makes the digest recomputed from the node's fields
\* differ from its stored hash, and writing a different hash into a node
\* breaks the prevHash link of its successor.
C13_TamperEvident ==
    \A i \in 1..Len(SKYLA_CHAIN) :
      LET node == SKYLA_CHAIN[i]
      IN  /\ \A f \in DOMAIN StoredFields(node) :
               \A v \in TamperValues(f, SKYLA_CHAIN) :
                 v # node[f] =>
                   hashProofNode([StoredFields(node) EXCEPT ![f] = v]) # node.hash
          /\ i < Len(SKYLA_CHAIN) =>
               \A h \in TamperValues("prevHash", SKYLA_CHAIN) :
                 h # node.hash => SKYLA_CHAIN[i + 1].prevHash # h

\* C14: for every node of the ledger, the digest recomputed from the node's
\* stored idx, from, to, delta, prevHash, deltaLogic, deltaTemporal and
\* divergence is the node's stored hash; so is it for every node of a chain
\* that appendProof returns.
C14_HashRecomputes ==
    /\ \A i \in 1..Len(SKYLA_CHAIN) :
         hashProofNode(StoredFields(SKYLA_CHAIN[i])) = SKYLA_CHAIN[i].hash
    /\ res.op = "appendProof" =>
         \A i \in 1..Len(res.returned) :
           hashProofNode(StoredFields(res.returned[i])) = res.returned[i].hash

\* a ledger of two nodes whose temporal residual and divergence are not zero
C14_Witness ==
    /\ Len(SKYLA_CHAIN) = 2
    /\ SKYLA_CHAIN[2].deltaTemporal > 0
    /\ SKYLA_CHAIN[2].divergence > 0
    /\ SKYLA_CHAIN[2].hash = hashProofNode(StoredFields(SKYLA_CHAIN[2]))

\* C15: a step that is not a ledger reset never shortens the ledger and
\* leaves every node already appended at its index with all its fields;
\* Detect and chain export leave the ledger as it is; a step that removes a
\* node is a reset and removes them all.
C15_AppendOnly ==
    [][ LET n == Len(SKYLA_CHAIN)
        IN  /\ res'.op # "resetProofChain" =>
                 /\ Len(SKYLA_CHAIN') >= n
                 /\ \A i \in 1..n : SKYLA_CHAIN'[i] = SKYLA_CHAIN[i]
            /\ res'.op \in {"detect", "proofchain"} => SKYLA_CHAIN' = SKYLA_CHAIN
            /\ (\E i \in 1..n : i > Len(SKYLA_CHAIN') \/ SKYLA_CHAIN'[i] # SKYLA_CHAIN[i]) =>
                 /\ res'.op = "resetProofChain"
                 /\ SKYLA_CHAIN' = <<>>
      ]_vars

\* three nodes appended one after the other, the first two still in place
C15_Witness ==
    /\ Len(SKYLA_CHAIN) = 3
    /\ res.op = "transition"
    /\ SKYLA_CHAIN[1].idx = 0
    /\ SKYLA_CHAIN[2].idx = 1
    /\ res.proofIndex = 2

\* C16: appendProof(chain, transition) leaves the array it is given as it
\* was, same length and same nodes, and returns that array's nodes followed
\* by exactly one new node whose idx is the length of the array given.
C16_InputNotMutated ==
    [][ res'.op = "appendProof" =>
          LET n == Len(SKYLA_CHAIN)
          IN  /\ SKYLA_CHAIN' = SKYLA_CHAIN
              /\ Len(res'.returned) = n + 1
              /\ \A i \in 1..n : res'.returned[i] = SKYLA_CHAIN[i]
              /\ res'.returned[n + 1].idx = n
      ]_vars

\* appendProof called on a ledger of two nodes, which are still the ledger
C16_Witness ==
    /\ res.op = "appendProof"
    /\ Len(SKYLA_CHAIN) = 2
    /\ Len(res.returned) = 3
    /\ res.returned[3].idx = 2

\* C17: a ledger reset leaves the ledger empty, and an accepted Transition
\* served while the ledger is empty, right after a reset as at the start,
\* leaves one node with idx = 0 and prevHash = 'GENESIS'.
C17_ResetRestarts ==
    [][ /\ res'.op = "resetProofChain" => SKYLA_CHAIN' = <<>>
        /\ (res.op = "resetProofChain" /\ res'.op \in {"detect", "proofchain"}) =>
             SKYLA_CHAIN' = <<>>
        /\ ((res.op = "resetProofChain" \/ SKYLA_CHAIN = <<>>)
              /\ res'.op = "transition" /\ res'.status = 200) =>
             /\ Len(SKYLA_CHAIN') = 1
             /\ SKYLA_CHAIN'[1].idx = 0
             /\ SKYLA_CHAIN'[1].prevHash = "GENESIS"
             /\ res'.proofIndex = 0
      ]_vars

\* two accepted Transitions between u and v have been served but the ledger
\* holds one node, numbered 0: it was reset in between
C17_Witness ==
    /\ ops = 3
    /\ res.op = "transition"
    /\ res.status = 200
    /\ Len(SKYLA_CHAIN) = 1
    /\ SKYLA_CHAIN[1].idx = 0
    /\ SKYLA_CHAIN[1].prevHash = "GENESIS"
    /\ "u::d" \in DOMAIN hist
    /\ Len(hist["u::d"]) = 2
    /\ \A i \in 1..2 : IsNum(hist["u::d"][i][3]) /\ hist["u::d"][i][3] = 500

\* C18: read(actorId, domain) returns 0.85 when the table holds no record for
\* the key and the stored integrity otherwise, and leaves the table as it
\* was: no record is created and none is changed.
C18_ReadPure ==
    [][ res'.op = "read" =>
          LET k == key(res'.actorId, res'.domain)
          IN  /\ SKYLA_INTEGRITY' = SKYLA_INTEGRITY
              /\ k \notin DOMAIN SKYLA_INTEGRITY =>
                   /\ res'.value = 8500
                   /\ k \notin DOMAIN SKYLA_INTEGRITY'
              /\ k \in DOMAIN SKYLA_INTEGRITY =>
                   res'.value = SKYLA_INTEGRITY[k].integrity
      ]_vars

\* v read while only u has a record: the prior, and still no record for v
C18_Witness ==
    /\ res.op = "read"
    /\ res.actorId = "v"
    /\ res.value = 8500
    /\ DOMAIN SKYLA_INTEGRITY = {"u::d"}
    /\ SKYLA_INTEGRITY["u::d"].integrity # 8500

\* C19: Detect, for every input, and chain export leave the integrity table
\* (its keys and every record) and the ledger as they were, and Detect
\* reports for each actor the stored integrity, interactionCount and
\* averageDivergence, or 0.85 / 0 / 0.3 when the actor has no record.
C19_DetectReadOnly ==
    [][ res'.op \in {"detect", "proofchain"} =>
          /\ SKYLA_INTEGRITY' = SKYLA_INTEGRITY
          /\ SKYLA_CHAIN' = SKYLA_CHAIN
          /\ (res'.op = "detect" /\ res'.status = 200) =>
               \A body \in Bodies : Detect(body) =>
                 LET r == Destructure(body)
                 IN  \A a \in {r.actorA, r.actorB} :
                       LET k   == key(a, r.domain)
                           rep == res'.actors[a]
                       IN  IF k \in DOMAIN SKYLA_INTEGRITY
                           THEN /\ rep.integrity = SKYLA_INTEGRITY[k].integrity
                                /\ rep.interactions = SKYLA_INTEGRITY[k].interactionCount
                                /\ rep.averageDivergence = SKYLA_INTEGRITY[k].averageDivergence
                           ELSE /\ rep.integrity = 8500
                                /\ rep.interactions = 0
                                /\ rep.averageDivergence = 3000
      ]_vars

\* Detect served for u, who has a record of two interactions, and v, who
\* has none, with one node in the ledger
C19_Witness ==
    /\ res.op = "detect"
    /\ res.status = 200
    /\ DOMAIN res.actors = {"u", "v"}
    /\ DOMAIN SKYLA_INTEGRITY = {"u::d"}
    /\ SKYLA_INTEGRITY["u::d"].interactionCount = 2
    /\ res.actors["u"].interactions = 2
    /\ res.actors["v"].interactions = 0
    /\ Len(SKYLA_CHAIN) = 1

\* the record a first update with divergence div leaves, worked from the
\* defaults 0.85 / 0.3 / 0: cold-start factor 0, so 30% of the penalty
FirstUpdate(div) ==
    LET penalty == IF ~IsNum(div) THEN NaN ELSE IF div > Num(1) THEN Num(1) ELSE div
        newI    == Add(Mul(8000, 8500), Mul(2000, Sub(Num(1), Mul(penalty, 3000))))
    IN  [ integrity         |-> IF ~IsNum(newI) THEN NaN
                                ELSE IF newI > Num(1) THEN Num(1)
                                ELSE IF newI < 500 THEN 500 ELSE newI,
          averageDivergence |-> Add(Mul(8000, 3000), Mul(2000, div)),
          interactionCount  |-> 1 ]

\* C20: reset(actorId, domain) deletes the record; a read of a key with no
\* update since its reset returns 0.85 whatever was stored before, and the
\* first update since the reset starts from integrity 0.85, averageDivergence
\* 0.3 and interactionCount 0 (full cold-start dampening) and leaves
\* interactionCount = 1.
C20_ResetDeletes ==
    /\ res.op = "resetIntegrity" =>
         key(res.actorId, res.domain) \notin DOMAIN SKYLA_INTEGRITY
    /\ (res.op = "read" /\ key(res.actorId, res.domain) \notin DOMAIN hist) =>
         res.value = 8500
    /\ \A k \in DOMAIN hist :
         Len(hist[k]) = 1 =>
           /\ k \in DOMAIN SKYLA_INTEGRITY
           /\ LET row == SKYLA_INTEGRITY[k]
                  new == FirstUpdate(hist[k][1][3])
              IN  /\ row.interactionCount = 1
                  /\ row.integrity = new.integrity
                  /\ row.averageDivergence = new.averageDivergence

\* u took part in an accepted Transition with v, was reset, and has been
\* updated once since: its record counts one interaction
C20_Witness ==
    /\ ops = 3
    /\ res.op = "update"
    /\ res.actorId = "u"
    /\ Len(SKYLA_CHAIN) = 1
    /\ "v::d" \in DOMAIN hist
    /\ hist["v::d"] = << <<"v", "d", 250>> >>
    /\ SKYLA_INTEGRITY["u::d"].interactionCount = 1
    /\ SKYLA_INTEGRITY["u::d"].lastUpdated = 2

\* what read, trend and details return for (actorId, domain) on table m
Views(m, actorId, domain) ==
    << getIntegrity(m, actorId, domain),
       getIntegrityTrend(m, actorId, domain),
       getIntegrityDetails(m, actorId, domain) >>

\* an update or reset of (a1, d1) leaves the views of every other pair of
\* the given identifiers as they were
OthersUntouched(actors, domains) ==
    res'.op \in {"update", "resetIntegrity"} =>
      \A a2 \in actors, d2 \in domains :
        <<a2, d2>> # <<res'.actorId, res'.domain>> =>
          Views(SKYLA_INTEGRITY', a2, d2) = Views(SKYLA_INTEGRITY, a2, d2)

\* C21: records are unique per (actorId, domain) pair: an update or reset of
\* one pair never changes what read, trend or details return for a different
\* pair, also when the identifiers contain '::'.
C21_KeysIndependent == [][OthersUntouched(KeyActors, KeyDomains)]_vars

\* C22: the averageDivergence of every record is within [0, 1] after any
\* sequence of update calls, for every divergence update accepts (0 to above
\* 1).
C22_AverageInRange ==
    \A k \in DOMAIN SKYLA_INTEGRITY :
      LET avg == SKYLA_INTEGRITY[k].averageDivergence
      IN  IsNum(avg) /\ 0 <= avg /\ avg <= Num(1)

\* every call recorded for k passed the divergence div
AllCalls(h, k, div) ==
    k \in DOMAIN h /\ \A i \in 1..Len(h[k]) : h[k][i][3] = div

\* C23: update(actorId, domain, 0.9) called ten times in a row on a fresh key
\* returns and stores, at each call, an integrity strictly lower than the
\* one before the call (0.85 before the first) and never below 0.05.
C23_TenUpdatesDescend ==
    [][ (res'.op = "update" /\ AllCalls(hist', "u::d", 9000)
           /\ Len(hist'["u::d"]) <= 10) =>
          LET before == getIntegrity(SKYLA_INTEGRITY, "u", "d")
              after  == res'.value
          IN  /\ IsNum(after)
              /\ after < before
              /\ after >= 500
              /\ SKYLA_INTEGRITY'["u::d"].integrity = after
      ]_vars

\* the tenth call of the scenario has been made
C23_Witness ==
    /\ res.op = "update"
    /\ AllCalls(hist, "u::d", 9000)
    /\ Len(hist["u::d"]) = 10
    /\ SKYLA_INTEGRITY["u::d"].interactionCount = 10
    /\ SKYLA_INTEGRITY["u::d"].integrity < 8500
    /\ SKYLA_INTEGRITY["u::d"].integrity >= 500

\* the weight the penalty gets after count earlier interactions:
\* 0.3 at none, 0.3 + 0.7 * count / 5 below five, 1 from five on
PenaltyWeight(count) ==
    IF count = 0 THEN 3000
    ELSE IF count >= 5 THEN Num(1)
    ELSE 3000 + (7000 * count) \div 5

\* C24: in update the penalty is min(1, observedDivergence) and the adjusted
\* penalty is 0.3 * penalty at a prior interactionCount of 0, penalty at 5 or
\* more and penalty * (0.3 + 0.7 * count / 5) in between, non-decreasing in
\* the count; the stored integrity is the blend made with it.
C24_ColdStart ==
    [][ res'.op = "update" =>
          LET k       == key(res'.actorId, res'.domain)
              count   == IF k \in DOMAIN SKYLA_INTEGRITY
                         THEN SKYLA_INTEGRITY[k].interactionCount ELSE 0
              prevI   == getIntegrity(SKYLA_INTEGRITY, res'.actorId, res'.domain)
              div     == hist'[k][Len(hist'[k])][3]
              penalty == IF div > Num(1) THEN Num(1) ELSE div
              adj     == (penalty * PenaltyWeight(count)) \div SCALE
              newI    == (8000 * prevI) \div SCALE + (2000 * (Num(1) - adj)) \div SCALE
          IN  /\ SKYLA_INTEGRITY'[k].integrity =
                   (IF newI > Num(1) THEN Num(1) ELSE IF newI < 500 THEN 500 ELSE newI)
              /\ adjustedPenaltyOf(penalty, count) = adj
              /\ \A c \in 0..MaxCalls :
                   adjustedPenaltyOf(penalty, c) <= adjustedPenaltyOf(penalty, c + 1)
              /\ count = 0 => adj = (3000 * penalty) \div SCALE
              /\ count >= 5 => adj = penalty
      ]_vars

\* an update made on a record of six interactions: past the cold start
C24_Witness ==
    /\ res.op = "update"
    /\ SKYLA_INTEGRITY["u::d"].interactionCount = 7
    /\ hist["u::d"][7][3] = 9000
    /\ hist["u::d"][1][3] = 15000

\* x is y to three decimals
Approx(x, y) == IsNum(x) /\ x - y <= 5 /\ y - x <= 5

\* the response is Detect's evaluation of from -> to
Evaluated(from, to) ==
    /\ res.op = "detect"
    /\ res.status = 200
    /\ res.description = "Transition " \o from \o "->" \o to

\* C25 as stated: evaluate("chaos", "conflict") with the reference embeddings
\* yields rawDistance about 0.346, temporalResidual about 0.069,
\* logicResidual = 0 and the verdict VALID.
C25_ScenarioB ==
    Evaluated("chaos", "conflict") =>
      /\ Approx(res.dist, 3460)
      /\ Approx(res.delta.temporalResidual, 690)
      /\ res.delta.logicResidual = 0
      /\ res.verdict = "VALID"

\* C25 amended: evaluate("chaos", "conflict") with the reference embeddings
\* yields rawDistance about 0.400, temporalResidual about 0.080,
\* logicResidual = 0 and the verdict VALID.
C25_ScenarioB_Amended ==
    Evaluated("chaos", "conflict") =>
      /\ Approx(res.dist, 4000)
      /\ Approx(res.delta.temporalResidual, 800)
      /\ res.delta.logicResidual = 0
      /\ res.verdict = "VALID"

\* chaos -> conflict has been evaluated
C25_Witness ==
    /\ Evaluated("chaos", "conflict")
    /\ res.dist > 0
    /\ res.verdict = "VALID"

\* C26: an accepted Transition answers ok with proofIndex = chainLength - 1,
\* proofHash the hash of the ledger's last node, chainExtended true and
\* chainLength one more than the ledger's length before the request; a
\* rejected one answers ok false and chainExtended false and leaves the
\* ledger's length as it was.
C26_ResponseMatchesLedger ==
    [][ (res'.op = "transition" /\ "verdict" \in DOMAIN res') =>
          LET n    == Len(SKYLA_CHAIN)
              n1   == Len(SKYLA_CHAIN')
          IN  IF res'.verdict # "REJECT"
              THEN /\ res'.ok = TRUE
                   /\ res'.status = 200
                   /\ res'.chainExtended = TRUE
                   /\ res'.chainLength = n + 1
                   /\ res'.chainLength = n1
                   /\ res'.proofIndex = res'.chainLength - 1
                   /\ res'.proofIndex = SKYLA_CHAIN'[n1].idx
                   /\ res'.proofHash = SKYLA_CHAIN'[n1].hash
              ELSE /\ res'.ok = FALSE
                   /\ res'.status = 400
                   /\ res'.chainExtended = FALSE
                   /\ n1 = n
      ]_vars

\* the third Transition accepted onto a ledger of two nodes
C26_Witness ==
    /\ res.op = "transition"
    /\ res.status = 200
    /\ res.chainLength = 3
    /\ res.proofIndex = 2
    /\ res.proofHash = SKYLA_CHAIN[3].hash

\* the residuals, divergence and verdict as the engine's functions give them
\* for from and to and the embedding table, nothing else
PureEvaluation(from, to) ==
    LET dL == logicResidualFromRule(forbiddenTransition(from, to))
        dT == temporalResidualFromDistance(vectorDistance(Lookup(from), Lookup(to)))
        d  == calcDiv(dL, dT)
    IN  [ delta   |-> [logicResidual |-> dL, temporalResidual |-> dT, divergence |-> d],
          verdict |-> verdictFromDivergence(dL, dT, d) ]

\* C27: the residuals, divergence and verdict that Detect and Transition
\* report are a function of from, to and the embedding table only: the same
\* for the same from and to whatever the actors, the domain, the integrity
\* table and the ledger.
C27_EnginePure ==
    [][ (res'.op \in {"transition", "detect"} /\ "delta" \in DOMAIN res') =>
          \A body \in PureBodies : (Transition(body) \/ Detect(body)) =>
            LET r   == Destructure(body)
                ref == PureEvaluation(r.from, r.to)
            IN  /\ res'.delta = ref.delta
                /\ res'.verdict = ref.verdict
      ]_vars

\* chaos -> conflict reported by a Transition served on a ledger and a table
\* that earlier requests have filled
C27_Witness ==
    /\ ops = 3
    /\ res.op = "transition"
    /\ res.status = 200
    /\ res.newState = "conflict"
    /\ res.delta = PureEvaluation("chaos", "conflict").delta
    /\ Len(SKYLA_CHAIN) = 3
    /\ DOMAIN SKYLA_INTEGRITY =
         {"u::d", "v::d", "u::e", "v::e", "user:A::symbolic.state", "user:B::symbolic.state"}

\* C28: the ledger read returns a copy: whatever the caller then does to
\* the snapshot it holds (adding, removing or changing entries) leaves the
\* ledger's own chain, its length, its nodes and their fields, as it was.
C28_SnapshotIsCopy ==
    [][ (res.op = "snapshot" /\ ~(\E body \in LedgerBodies : Transition(body))) =>
          SKYLA_CHAIN' = SKYLA_CHAIN
      ]_vars

\* C29: with the default weights and residuals in [0, 1], divergence does not
\* fall when logicResidual rises with temporalResidual fixed, nor when
\* temporalResidual rises with logicResidual fixed.
C29_DivergenceMonotone ==
    res.op = "divergence" =>
      \A x \in ResidualGrid :
        /\ x >= res.deltaLogic =>
             divergence(x, res.deltaTemporal, <<>>) >= res.value
        /\ x >= res.deltaTemporal =>
             divergence(res.deltaLogic, x, <<>>) >= res.value

\* divergence taken at (0.5, 0.5): strictly larger at (1, 0.5) and (0.5, 1)
C29_Witness ==
    /\ res.op = "divergence"
    /\ res.deltaLogic = 5000
    /\ res.deltaTemporal = 5000
    /\ res.value > 0
    /\ divergence(Num(1), 5000, <<>>) > res.value
    /\ divergence(5000, Num(1), <<>>) > res.value

\* C30: for every configured state s, evaluate(s, s) yields rawDistance = 0
\* and temporalResidual = 0.
C30_SelfDistanceZero ==
    \A s \in StateNames :
      Evaluated(s, s) =>
        /\ res.dist = 0
        /\ res.delta.temporalResidual = 0

\* chaos -> chaos has been evaluated
C30_Witness ==
    /\ Evaluated("chaos", "chaos")
    /\ res.dist = 0
    /\ res.delta.temporalResidual = 0
    /\ res.verdict = "VALID"

\* the keys of the records that belong to actorId
RecordsOf(m, actorId) == {k \in DOMAIN m : m[k].actorId = actorId}

RECURSIVE SumOver(_, _, _)
SumOver(m, ks, weighted) ==
    IF ks = {} THEN 0
    ELSE LET k == CHOOSE x \in ks : TRUE
         IN  (IF weighted THEN m[k].integrity * m[k].interactionCount
                          ELSE m[k].interactionCount)
             + SumOver(m, ks \ {k}, weighted)

\* the summary of actorId on table m is the aggregate of its records: the
\* sum of the counts, the domains, and the mean of the integrities weighted
\* by the counts (up to one unit of rounding per record), which lies
\* between the smallest and the largest of them
SummaryAggregates(m, actorId, summary) ==
    LET recs == RecordsOf(m, actorId)
    IN  IF recs = {}
        THEN summary = [domains |-> {}, averageIntegrity |-> 8500, totalInteractions |-> 0]
        ELSE LET total    == SumOver(m, recs, FALSE)
                 tol      == Cardinality(recs)
                 avg      == summary.averageIntegrity
             IN  /\ summary.totalInteractions = total
                 /\ summary.domains = {m[k].domain : k \in recs}
                 /\ IsNum(avg)
                 /\ \A k \in recs : IsNum(m[k].integrity)
                 /\ LET mean == SumOver(m, recs, TRUE) \div total
                    IN  /\ avg - mean <= tol /\ mean - avg <= tol
                        /\ \E k \in recs : m[k].integrity <= mean
                        /\ \E k \in recs : m[k].integrity >= mean
                 /\ \E k \in recs : m[k].integrity <= avg + tol
                 /\ \E k \in recs : m[k].integrity >= avg - tol

\* C31: summarize(actorId) aggregates every domain record of the actor:
\* totalInteractions is the sum of their interactionCounts, the average
\* integrity weights each domain's integrity by its share of that total and
\* so lies between the smallest and the largest domain integrity; with no
\* record it returns 0.85, no domains and 0 interactions.
C31_SummaryAggregates ==
    res.op = "summarize" => SummaryAggregates(SKYLA_INTEGRITY, res.actorId, res.value)

\* C32: trend(actorId, domain) returns 0 when the pair has no record or
\* fewer than 3 interactions, and otherwise integrity - (1 -
\* averageDivergence) of the record; it never changes the table.
C32_Trend ==
    [][ res'.op = "trend" =>
          /\ SKYLA_INTEGRITY' = SKYLA_INTEGRITY
          /\ LET k == key(res'.actorId, res'.domain)
             IN  IF k \notin DOMAIN SKYLA_INTEGRITY
                 THEN res'.value = 0
                 ELSE IF SKYLA_INTEGRITY[k].interactionCount < 3
                 THEN res'.value = 0
                 ELSE res'.value =
                        Sub(SKYLA_INTEGRITY[k].integrity,
                            Sub(Num(1), SKYLA_INTEGRITY[k].averageDivergence)) ]_vars

C32_Witness ==
    /\ res.op = "trend"
    /\ key(res.actorId, res.domain) \in DOMAIN SKYLA_INTEGRITY
    /\ SKYLA_INTEGRITY[key(res.actorId, res.domain)].interactionCount >= 3
    /\ IsNum(res.value)
    /\ res.value # 0

\* the node records a transition that the engine accepts
AcceptedNode(node) ==
    /\ node.from \in StateNames
    /\ node.to \in StateNames
    /\ ~forbiddenTransition(node.from, node.to)
    /\ node.deltaLogic = 0
    /\ IsNum(node.divergence)
    /\ node.divergence <= 8500

\* C33: every node that is ever in the ledger records an accepted
\* transition: from and to are configured state names, (from, to) is not
\* forbidden, deltaLogic = 0 and divergence <= 0.85.
C33_LedgerAccepted ==
    \A i \in 1..Len(SKYLA_CHAIN) : AcceptedNode(SKYLA_CHAIN[i])

\* C34: the ledger's length is the number of Transition requests with a
\* verdict other than REJECT served since the last ledger reset (or since
\* startup): it starts at 0, such a request adds one, a ledger reset puts
\* it back to 0, and every other step (a refused Transition, Detect, chain
\* export, integrity updates, reads and resets) leaves it as it is.
C34_LengthCountsAccepted ==
    /\ Len(SKYLA_CHAIN) = 0
    /\ [][ Len(SKYLA_CHAIN') =
             IF res'.op = "resetProofChain" THEN 0
             ELSE IF /\ res'.op = "transition"
                     /\ "verdict" \in DOMAIN res'
                     /\ res'.verdict # "REJECT"
                  THEN Len(SKYLA_CHAIN) + 1
                  ELSE Len(SKYLA_CHAIN) ]_vars

\* two accepted Transitions, then an integrity reset: the ledger holds two
C34_Witness ==
    /\ res.op = "resetIntegrity"
    /\ ops = 3
    /\ Len(SKYLA_CHAIN) = 2

C36_RejectNeverRaises ==
    [][ (res'.op = "transition" /\ "verdict" \in DOMAIN res' /\ res'.verdict = "REJECT") =>
          \A body \in RejectBodies : TransitionStep(body) =>
            ~Gt(getIntegrity(SKYLA_INTEGRITY', body.actorA, body.domain),
                getIntegrity(SKYLA_INTEGRITY, body.actorA, body.domain))
      ]_vars

\* C37: every record in the table has interactionCount >= 1, so the total
\* weight by which summarize divides is at least 1 for every actor that has
\* a record.
C37_CountsPositive ==
    /\ \A k \in DOMAIN SKYLA_INTEGRITY : SKYLA_INTEGRITY[k].interactionCount >= 1
    /\ \A a \in Actors :
          RecordsOf(SKYLA_INTEGRITY, a) # {} =>
            SumOver(SKYLA_INTEGRITY, RecordsOf(SKYLA_INTEGRITY, a), FALSE) >= 1
    /\ (res.op = "summarize" /\ RecordsOf(SKYLA_INTEGRITY, res.actorId) # {}) =>
          res.value.totalInteractions >= 1

\* a summary over the records of an actor seen once in each of two domains
C37_Witness ==
    /\ res.op = "summarize"
    /\ Cardinality(RecordsOf(SKYLA_INTEGRITY, res.actorId)) = 2
    /\ res.value.totalInteractions = 2
    /\ IsNum(res.value.averageIntegrity)

\* C38: repeated update calls for one key with an observed divergence >= 1
\* drive the key's integrity down to the floor 0.05 after finitely many
\* calls (each call lowers it until it is at the floor, which it reaches
\* with the 16th call), and it then stays at 0.05 while such updates
\* continue.
C38_FloorReached ==
    /\ [](\A k \in DOMAIN SKYLA_INTEGRITY :
            /\ SKYLA_INTEGRITY[k].integrity >= 500
            /\ SKYLA_INTEGRITY[k].interactionCount >= 16 =>
                 SKYLA_INTEGRITY[k].integrity = 500)
    /\ [][ res'.op = "update" =>
             LET k    == key(res'.actorId, res'.domain)
                 prev == getIntegrity(SKYLA_INTEGRITY, res'.actorId, res'.domain)
                 new  == SKYLA_INTEGRITY'[k].integrity
             IN  /\ prev > 500 => new < prev
                 /\ prev = 500 => new = 500 ]_vars

\* both keys at the floor, and updated again since they reached it
C38_Witness ==
    /\ DOMAIN SKYLA_INTEGRITY = {"u::d", "v::d"}
    /\ \A k \in DOMAIN SKYLA_INTEGRITY :
          /\ SKYLA_INTEGRITY[k].interactionCount = 18
          /\ SKYLA_INTEGRITY[k].integrity = 500

\* C39: the two singletons are independent: an integrity update or reset
\* never changes the ledger, a ledger reset never changes the integrity
\* table, and an update (or reset) for one key leaves every other key's
\* record as it was.
C39_SingletonsIndependent ==
    [][ /\ res'.op \in {"update", "resetIntegrity"} =>
             /\ SKYLA_CHAIN' = SKYLA_CHAIN
             /\ \A k \in (DOMAIN SKYLA_INTEGRITY) \cup (DOMAIN SKYLA_INTEGRITY') :
                   k # key(res'.actorId, res'.domain) =>
                     /\ k \in DOMAIN SKYLA_INTEGRITY
                     /\ k \in DOMAIN SKYLA_INTEGRITY'
                     /\ SKYLA_INTEGRITY'[k] = SKYLA_INTEGRITY[k]
        /\ res'.op = "resetProofChain" => SKYLA_INTEGRITY' = SKYLA_INTEGRITY
      ]_vars

\* u updated while the ledger holds a node and v has a record
C39_Witness ==
    /\ res.op = "update"
    /\ res.actorId = "u"
    /\ Len(SKYLA_CHAIN) = 1
    /\ "v::d" \in DOMAIN SKYLA_INTEGRITY
    /\ Len(hist["u::d"]) = 2

\* C40: in the hash encoding a missing optional field (deltaLogic,
\* deltaTemporal, divergence) canonicalizes to 0: the node appendProof seals
\* with one of these fields absent has the hash of the node that differs
\* from it only in having that field 0, and the other way round.
C40_MissingIsZero ==
    res.op = "appendProof" =>
      LET node == res.returned[Len(res.returned)]
      IN  \A f \in OptionalFields :
            /\ node[f] = Undefined =>
                 node.hash = hashProofNode([StoredFields(node) EXCEPT ![f] = 0])
            /\ node[f] = 0 =>
                 node.hash = hashProofNode([StoredFields(node) EXCEPT ![f] = Undefined])

\* a node sealed without deltaLogic, with divergence 0 and a temporal residual
C40_Witness ==
    /\ res.op = "appendProof"
    /\ LET node == res.returned[Len(res.returned)]
       IN  /\ node.deltaLogic = Undefined
           /\ node.deltaTemporal = 800
           /\ node.divergence = 0
           /\ node.hash = "sha256(0-chaos-conflict-4000-GENESIS-0-800-0)"

====
